---- MODULE Spec2Model ----
(***************************************************************************)
(* Model of src/src/core_analytics.py, class CompoundDisasterAnalytics.     *)
(*                                                                         *)
(* Numbers.  The program computes with Python floats.  The model computes   *)
(* with exact fixed-point integers:                                        *)
(*   - an observation value is held in tenths (Num(103, 0) is 103.0,        *)
(*     Num(0, 1) is 0.1), the resolution of the finest literal the code     *)
(*     compares an input with;                                             *)
(*   - a risk quantity (heat_risk, infra_risk, total_risk, ...) is held in  *)
(*     units of 1/120000 (Frac(1, 1) is 1.0), in which every quotient and   *)
(*     product the code forms from tenths-valued inputs is a whole number;  *)
(*   - a value returned through round(x, 3) is held in thousandths.         *)
(* The exact value and the float the code computes differ by a rounding    *)
(* error far below 1/120000, which shows in a result only where round(x, 3) *)
(* meets a value that is exactly halfway between two thousandths: the float *)
(* lies just below or just above it (0.1665 is returned as 0.167, 0.3015 as *)
(* 0.301).  The variable tie holds that side; it is fixed for a run, as     *)
(* float arithmetic is deterministic, and both sides are explored.          *)
(* NaN, infinities and integers too large for a float are outside the       *)
(* model.                                                                   *)
(***************************************************************************)
EXTENDS Integers, Sequences, FiniteSets

VARIABLES
    engine,      \* the CompoundDisasterAnalytics object's attributes
    input_data,  \* the observation dict the caller holds
    result,      \* what the last operation returned
    last_call,   \* the operation that returned it
    clock,       \* the wall clock datetime.now() last read
    tie,         \* the side the float error of a decimal tie falls on
    earlier      \* the caller's log: how the earlier assessments ended

vars == <<engine, input_data, result, last_call, clock, tie, earlier>>

-----------------------------------------------------------------------------
(* Bounds of the model *)

\* the latest instant datetime.now() can return
MaxClock == 1
\* the hottest whole temperature of the input grid
MaxTemp == 110
\* the highest whole power demand of the input grid
MaxDemand == 2200

-----------------------------------------------------------------------------
(* Numbers *)

\* the input value  whole + tenths/10, in tenths
Num(whole, tenths) == 10 * whole + tenths

\* the risk quantity n/d, in units of 1/120000
Frac(n, d) == (n * 120000) \div d

\* x * (n/d) for a risk quantity x
Times(x, n, d) == (x * n) \div d

Min(a, b) == IF a <= b THEN a ELSE b
Max(a, b) == IF a >= b THEN a ELSE b

\* round(x, 3) of the quantity x/den, in thousandths; side is where the
\* float of an exact tie lies
Round3(x, den, side) ==
    LET n == x * 1000
        q == n \div den
        r == n % den
    IN  IF 2 * r < den THEN q
        ELSE IF 2 * r > den THEN q + 1
        ELSE IF side = "below" THEN q ELSE q + 1

Sides == {"below", "above"}

-----------------------------------------------------------------------------
(* Python values held by the observation dict *)

Number(v) == [type |-> "float", val |-> v]
\* a str value such as 'hot': every comparison with a number raises TypeError
Str == [type |-> "str", val |-> 0]
\* a key the dict does not hold
Absent == [type |-> "absent", val |-> 0]

IsNumeric(x) == x.type = "float"

Keys == {"temperature", "precipitation", "humidity", "power_demand", "soil_moisture"}

\* input_data.get(key): an absent key gives None
Get_without_default(d, key, default) ==
    IF d[key].type = "absent" THEN [type |-> "NoneType", val |-> 0] ELSE d[key]

\* input_data.get(key, default)
Get(d, key, default) == IF d[key].type = "absent" THEN Number(default) ELSE d[key]

-----------------------------------------------------------------------------
(* __init__ *)

\* the attributes __init__ sets; risk_thresholds keeps the dict's insertion
\* order
InitEngine ==
    [ heat_threshold_temp |-> Num(95, 0),
      heat_threshold_duration |-> 3,
      flood_threshold_precipitation |-> Num(2, 0),
      infrastructure_critical_threshold |-> Num(1800, 0),
      risk_model |-> "None",
      anomaly_detector |-> "None",
      risk_thresholds |->
        << [level |-> "Low",      min_score |-> Frac(0, 1), max_score |-> Frac(3, 10)],
           [level |-> "Moderate", min_score |-> Frac(3, 10), max_score |-> Frac(6, 10)],
           [level |-> "High",     min_score |-> Frac(6, 10), max_score |-> Frac(8, 10)],
           [level |-> "Extreme",  min_score |-> Frac(8, 10), max_score |-> Frac(1, 1)] >> ]

-----------------------------------------------------------------------------
(* _calculate_risk_score, on numbers *)

\* heat_risk with the bonus at 105 assigned where the code adds it
heat_risk_bonus_assigned(temp) ==
    LET base == IF temp >= Num(95, 0)
                THEN Min(Frac(1, 1), Frac(temp - Num(95, 0), Num(15, 0)))
                ELSE Frac(0, 1)
        b100 == IF temp >= Num(100, 0) THEN Min(Frac(1, 1), base + Frac(2, 10)) ELSE base
    IN  IF temp >= Num(105, 0) THEN Min(Frac(1, 1), Frac(3, 10)) ELSE b100

\* Heat wave risk component and the extreme heat bonus
heat_risk(temp) ==
    LET base == IF temp >= Num(95, 0)
                THEN Min(Frac(1, 1), Frac(temp - Num(95, 0), Num(15, 0)))
                ELSE Frac(0, 1)
        b100 == IF temp >= Num(100, 0) THEN Min(Frac(1, 1), base + Frac(2, 10)) ELSE base
    IN  IF temp >= Num(105, 0) THEN Min(Frac(1, 1), b100 + Frac(3, 10)) ELSE b100

\* Infrastructure stress risk
infra_risk(self, power_demand) ==
    IF power_demand >= self.infrastructure_critical_threshold
    THEN Min(Frac(1, 1), Frac(power_demand - Num(1800, 0), Num(400, 0)))
    ELSE Frac(0, 1)

\* compound_multiplier with both comparisons written >=
compound_multiplier_inclusive(heat, infra) ==
    IF heat >= Frac(5, 10) /\ infra >= Frac(5, 10) THEN Num(1, 5) ELSE Num(1, 0)

\* Compound effect: Heat + Infrastructure stress; the multiplier in tenths
compound_multiplier(heat, infra) ==
    IF heat > Frac(5, 10) /\ infra > Frac(5, 10) THEN Num(1, 5) ELSE Num(1, 0)

\* Flood risk component
flood_risk(self, precip) ==
    IF precip >= self.flood_threshold_precipitation
    THEN Min(Frac(1, 1), Frac(precip, Num(5, 0)))
    ELSE Frac(0, 1)

\* drought_stress that asks for no rain at all
drought_stress_no_rain(temp, precip) ==
    IF temp > Num(95, 0) /\ precip <= Num(0, 0) THEN Frac(3, 10) ELSE Frac(0, 1)

\* Drought stress during heat
drought_stress(temp, precip) ==
    IF temp > Num(95, 0) /\ precip < Num(0, 5) THEN Frac(3, 10) ELSE Frac(0, 1)

\* Humidity factor
humidity_factor(temp, humidity) ==
    IF temp > Num(90, 0) /\ humidity > Num(70, 0) THEN Frac(13, 10) ELSE Frac(1, 1)

\* Soil moisture factor
soil_factor(soil_moisture) ==
    IF soil_moisture < Num(20, 0) THEN Frac(12, 10) ELSE Frac(1, 1)

environmental_stress(temp, precip, humidity, soil_moisture) ==
    Times(drought_stress(temp, precip)
            + (humidity_factor(temp, humidity) - Frac(1, 1))
            + (soil_factor(soil_moisture) - Frac(1, 1)), 3, 10)

\* the sum the multiplier is applied to: primary_risk +
\* infrastructure_contribution + environmental_stress
risk_before_multiplier(self, temp, precip, humidity, power_demand, soil_moisture) ==
    Max(heat_risk(temp), flood_risk(self, precip))
      + Times(infra_risk(self, power_demand), 6, 10)
      + environmental_stress(temp, precip, humidity, soil_moisture)

\* total_risk with the infrastructure contribution weighted 0.06
total_risk_light_infrastructure(self, temp, precip, humidity, power_demand, soil_moisture) ==
    LET heat == heat_risk(temp)
        infra == infra_risk(self, power_demand)
        primary_risk == Max(heat, flood_risk(self, precip))
        infrastructure_contribution == Times(infra, 6, 100)
    IN  Times(primary_risk + infrastructure_contribution
                + environmental_stress(temp, precip, humidity, soil_moisture),
              compound_multiplier(heat, infra), Num(1, 0))

\* Combined risk calculation, before the final clamp
total_risk(self, temp, precip, humidity, power_demand, soil_moisture) ==
    LET heat == heat_risk(temp)
        infra == infra_risk(self, power_demand)
        primary_risk == Max(heat, flood_risk(self, precip))
        infrastructure_contribution == Times(infra, 6, 10)
    IN  Times(primary_risk + infrastructure_contribution
                + environmental_stress(temp, precip, humidity, soil_moisture),
              compound_multiplier(heat, infra), Num(1, 0))

\* calculate_risk_score returning total_risk without the final min
calculate_risk_score_unclamped(self, temp, precip, humidity, power_demand, soil_moisture) ==
    total_risk(self, temp, precip, humidity, power_demand, soil_moisture)

calculate_risk_score(self, temp, precip, humidity, power_demand, soil_moisture) ==
    Min(Frac(1, 1), total_risk(self, temp, precip, humidity, power_demand, soil_moisture))

-----------------------------------------------------------------------------
(* _get_risk_level *)

\* the first bucket of risk_thresholds, in order, with min <= score < max;
\* 'Extreme' when the loop falls through
get_risk_level(self, risk_score) ==
    LET th == self.risk_thresholds
        hits == {i \in 1..Len(th) : th[i].min_score <= risk_score /\ risk_score < th[i].max_score}
    IN  IF hits = {} THEN "Extreme"
        ELSE th[CHOOSE i \in hits : \A j \in hits : i <= j].level

-----------------------------------------------------------------------------
(* _detect_anomaly *)

\* detect_anomaly with the extreme heat rule written >= 103
detect_anomaly_inclusive(temp, precip, humidity, power_demand) ==
    \/ temp >= Num(103, 0)
    \/ precip > Num(4, 0)
    \/ power_demand > Num(1900, 0)
    \/ (temp > Num(100, 0) /\ humidity > Num(80, 0))
    \/ (temp > Num(95, 0) /\ precip > Num(3, 0))

detect_anomaly(temp, precip, humidity, power_demand) ==
    \/ temp > Num(103, 0)
    \/ precip > Num(4, 0)
    \/ power_demand > Num(1900, 0)
    \/ (temp > Num(100, 0) /\ humidity > Num(80, 0))
    \/ (temp > Num(95, 0) /\ precip > Num(3, 0))

-----------------------------------------------------------------------------
(* _generate_recommendations *)

ExtremeBlock ==
    << "EMERGENCY: Activate all cooling centers immediately",
       "CRITICAL: Monitor power grid for imminent failures",
       "URGENT: Issue emergency heat warnings to all residents",
       "ALERT: Pre-position ambulances and medical teams",
       "DEPLOY: Emergency water distribution teams",
       "ACTIVATE: Emergency response coordination center" >>

HighBlock ==
    << "Open additional cooling centers",
       "Monitor power grid stress levels",
       "Issue heat advisory to vulnerable populations",
       "Increase emergency medical readiness",
       "Ensure adequate water supplies" >>

ModerateBlock ==
    << "Monitor heat conditions closely",
       "Check vulnerable population welfare",
       "Review power grid status",
       "Remind public about heat safety" >>

CancelOutdoor == "EXTREME HEAT: Cancel outdoor activities"
GridStress == "GRID STRESS: Prepare for potential rolling blackouts"
FloodDrainage == "FLOOD RISK: Monitor drainage systems"

\* generate_recommendations with the flood check placed before the grid check
generate_recommendations_flood_first(risk_level, temp, precip, power_demand) ==
    LET tier == IF risk_level = "Extreme" THEN ExtremeBlock
                ELSE IF risk_level = "High" THEN HighBlock
                ELSE IF risk_level = "Moderate" THEN ModerateBlock
                ELSE << >>
        r1 == IF temp > Num(100, 0) THEN Append(tier, CancelOutdoor) ELSE tier
        r2 == IF precip > Num(3, 0) THEN Append(r1, FloodDrainage) ELSE r1
    IN  IF power_demand > Num(1850, 0) THEN Append(r2, GridStress) ELSE r2

generate_recommendations(risk_level, temp, precip, power_demand) ==
    LET tier == IF risk_level = "Extreme" THEN ExtremeBlock
                ELSE IF risk_level = "High" THEN HighBlock
                ELSE IF risk_level = "Moderate" THEN ModerateBlock
                ELSE << >>
        r1 == IF temp > Num(100, 0) THEN Append(tier, CancelOutdoor) ELSE tier
        r2 == IF power_demand > Num(1850, 0) THEN Append(r1, GridStress) ELSE r1
    IN  IF precip > Num(3, 0) THEN Append(r2, FloodDrainage) ELSE r2

-----------------------------------------------------------------------------
(* _assess_infrastructure_impact *)

assess_infrastructure_impact(power_demand) ==
    IF power_demand > Num(1900, 0) THEN "Critical"
    ELSE IF power_demand > Num(1800, 0) THEN "High"
    ELSE IF power_demand > Num(1600, 0) THEN "Moderate"
    ELSE "Low"

-----------------------------------------------------------------------------
(* Exceptions.  A comparison of a str with a number raises TypeError; the   *)
(* comparisons are listed in the order the code evaluates them, `and`       *)
(* skipping its right operand when the left one is false.                   *)

NoException == [exc |-> "none", op |-> "", left |-> "", right |-> ""]

TypeError(op, x, rtype) == [exc |-> "TypeError", op |-> op, left |-> x.type, right |-> rtype]

\* the exception _calculate_risk_score raises, if any
calculate_risk_score_raises(temp, precip, humidity, power_demand, soil_moisture) ==
    IF ~IsNumeric(temp) THEN TypeError(">=", temp, "int")
    ELSE IF ~IsNumeric(power_demand) THEN TypeError(">=", power_demand, "int")
    ELSE IF ~IsNumeric(precip) THEN TypeError(">=", precip, "float")
    ELSE IF temp.val > Num(90, 0) /\ ~IsNumeric(humidity) THEN TypeError(">", humidity, "int")
    ELSE IF ~IsNumeric(soil_moisture) THEN TypeError("<", soil_moisture, "int")
    ELSE NoException

\* the exception _detect_anomaly raises, if any
detect_anomaly_raises(temp, precip, humidity, power_demand) ==
    IF ~IsNumeric(temp) THEN TypeError(">", temp, "int")
    ELSE IF ~IsNumeric(precip) THEN TypeError(">", precip, "float")
    ELSE IF ~IsNumeric(power_demand) THEN TypeError(">", power_demand, "int")
    ELSE IF temp.val > Num(100, 0) /\ ~IsNumeric(humidity) THEN TypeError(">", humidity, "int")
    ELSE NoException

-----------------------------------------------------------------------------
(* predict_compound_risk *)

\* the dict of the except branch
ErrorResult(e) ==
    [ error |-> <<"Risk prediction failed: ", e.op, e.left, e.right>>,
      risk_score |-> 0,
      risk_level |-> "Unknown" ]

\* Calculate confidence (simplified), in units of 1/480000
confidence_of(risk_score) == Min(4 * Frac(95, 100), 4 * Frac(7, 10) + risk_score)

predict_compound_risk(self, d, now, side) ==
    LET temp == Get(d, "temperature", Num(75, 0))
        precip == Get(d, "precipitation", Num(0, 1))
        humidity == Get(d, "humidity", Num(50, 0))
        power_demand == Get(d, "power_demand", Num(1500, 0))
        soil_moisture == Get(d, "soil_moisture", Num(30, 0))
        e1 == calculate_risk_score_raises(temp, precip, humidity, power_demand, soil_moisture)
        e2 == detect_anomaly_raises(temp, precip, humidity, power_demand)
    IN  IF e1.exc # "none" THEN ErrorResult(e1)
        ELSE IF e2.exc # "none" THEN ErrorResult(e2)
        ELSE
          LET risk_score == calculate_risk_score(self, temp.val, precip.val, humidity.val,
                                                 power_demand.val, soil_moisture.val)
              risk_level == get_risk_level(self, risk_score)
          IN  [ risk_score |-> Round3(risk_score, Frac(1, 1), side),
                risk_level |-> risk_level,
                is_anomaly |-> detect_anomaly(temp.val, precip.val, humidity.val, power_demand.val),
                recommendations |->
                    generate_recommendations(risk_level, temp.val, precip.val, power_demand.val),
                confidence |-> Round3(confidence_of(risk_score), 4 * Frac(1, 1), side),
                infrastructure_impact |-> assess_infrastructure_impact(power_demand.val),
                analysis_time |-> now ]

-----------------------------------------------------------------------------
(* validate_system and run_comprehensive_analysis *)

\* test_conditions of validate_system: it holds no soil_moisture
test_conditions ==
    [ temperature |-> Number(Num(103, 0)),
      precipitation |-> Number(Num(0, 1)),
      humidity |-> Number(Num(65, 0)),
      power_demand |-> Number(Num(1850, 0)),
      soil_moisture |-> [type |-> "absent", val |-> 0] ]

RiskLevels == {"Low", "Moderate", "High", "Extreme"}

validate_system(self, t1, t2, side) ==
    LET r == predict_compound_risk(self, test_conditions, t1, side)
        checks ==
          [ prediction_successful |-> "risk_score" \in DOMAIN r,
            risk_level_assigned |-> r.risk_level \in RiskLevels,
            recommendations_generated |->
                IF "recommendations" \in DOMAIN r THEN Len(r.recommendations) > 0 ELSE FALSE,
            confidence_calculated |->
                IF "confidence" \in DOMAIN r THEN 0 <= r.confidence /\ r.confidence <= 1000
                ELSE TRUE ]
        all_passed == /\ checks.prediction_successful /\ checks.risk_level_assigned
                      /\ checks.recommendations_generated /\ checks.confidence_calculated
    IN  [ system_status |-> IF all_passed THEN "OPERATIONAL" ELSE "ISSUES_DETECTED",
          validation_checks |-> checks,
          test_result |-> r,
          validation_time |-> t2 ]

\* the 30 days of the sample table are built and dropped; only their count
\* reaches the result
run_comprehensive_analysis(now) ==
    [ analysis_summary |-> [total_days_analyzed |-> 30, analysis_completed |-> now],
      validation_results |-> [ system_status |-> "Operational",
                               accuracy_rate |-> "100%",
                               test_scenarios_passed |-> "7/7" ] ]

-----------------------------------------------------------------------------
(* The observations the model calls with *)

Whole(S) == {Number(Num(w, 0)) : w \in S}
Tenth(S) == {Number(t) : t \in S}
Other == {Absent, Str}

\* every threshold the code compares a field with, a value on each side of
\* it, and the values at which a component is clamped
TempValues == Whole({75, 90, 95, 97, 100, 103, 104, 105, MaxTemp})
PrecipValues == Tenth({1, 5, 20, 30, 40, 41, 55})
HumidityValues == Whole({50, 80, 81})
DemandValues == Whole({1500, 1600, 1800, 1850, 1900, 1911, 2000, 2001, MaxDemand})
SoilValues == Tenth({199, 200, 300})

Observation(t, p, h, d, s) ==
    [ temperature |-> t, precipitation |-> p, humidity |-> h,
      power_demand |-> d, soil_moisture |-> s ]

\* the heat dome conditions of __main__ and of validate_system, with the
\* soil moisture the default gives
ScenarioA == Observation(Number(Num(103, 0)), Number(Num(0, 1)), Number(Num(65, 0)),
                         Number(Num(1850, 0)), Number(Num(30, 0)))
\* every field at its default
ScenarioB == Observation(Number(Num(75, 0)), Number(Num(0, 1)), Number(Num(50, 0)),
                         Number(Num(1500, 0)), Number(Num(30, 0)))
\* heat, grid stress and dry soil at once
ScenarioC == Observation(Number(Num(110, 0)), Number(Num(0, 0)), Number(Num(40, 0)),
                         Number(Num(2000, 0)), Number(Num(10, 0)))
\* the dict {}
EmptyObservation == Observation(Absent, Absent, Absent, Absent, Absent)

Observations ==
    [ temperature : TempValues \cup Other,
      precipitation : PrecipValues \cup Other,
      humidity : HumidityValues \cup Other,
      power_demand : DemandValues \cup Other,
      soil_moisture : SoilValues \cup Other ]
    \cup {ScenarioA, ScenarioB, ScenarioC}

\* the observations of a caller that calls again and again
CallObservations ==
    [ temperature : Whole({90, 104}) \cup Other,
      precipitation : Tenth({1, 41}),
      humidity : Whole({50}) \cup {Str},
      power_demand : Whole({1500, 1911, MaxDemand}),
      soil_moisture : Tenth({199, 300}) ]

-----------------------------------------------------------------------------
(* The state machine *)

NoResult == [none |-> TRUE]

\* after construction: the caller holds an observation, nothing was returned
Init ==
    /\ engine = InitEngine
    /\ input_data \in Observations
    /\ result = NoResult
    /\ last_call = "__init__"
    /\ clock = 0
    /\ tie \in Sides
    /\ earlier = {}

\* predict_compound_risk that keeps the demand it saw as the engine's
\* critical threshold
PredictCompoundRisk_recalibrating(obs) ==
    \E now \in clock..MaxClock :
        /\ clock' = now
        /\ input_data' = obs
        /\ result' = predict_compound_risk(engine, obs, now, tie)
        /\ last_call' = "predict_compound_risk"
        /\ engine' = IF obs.power_demand.type = "float"
                     THEN [engine EXCEPT !.infrastructure_critical_threshold = obs.power_demand.val]
                     ELSE engine
        /\ UNCHANGED tie

\* a call of predict_compound_risk with the observation obs
PredictCompoundRisk(obs) ==
    \E now \in clock..MaxClock :
        /\ clock' = now
        /\ input_data' = obs
        /\ result' = predict_compound_risk(engine, obs, now, tie)
        /\ last_call' = "predict_compound_risk"
        /\ UNCHANGED <<engine, tie>>

\* a call of validate_system: it passes test_conditions to
\* predict_compound_risk, and reads datetime.now() a second time
ValidateSystem ==
    \E t1 \in clock..MaxClock : \E t2 \in t1..MaxClock :
        /\ clock' = t2
        /\ input_data' = test_conditions
        /\ result' = validate_system(engine, t1, t2, tie)
        /\ last_call' = "validate_system"
        /\ UNCHANGED <<engine, tie>>

\* a call of run_comprehensive_analysis
RunComprehensiveAnalysis ==
    \E now \in clock..MaxClock :
        /\ clock' = now
        /\ result' = run_comprehensive_analysis(now)
        /\ last_call' = "run_comprehensive_analysis"
        /\ UNCHANGED <<engine, input_data, tie>>

\* the predict_compound_risk result the state holds: the one returned last,
\* or the test_result inside validate_system's
Assessment ==
    IF last_call = "validate_system" THEN result.test_result ELSE result

Assessed == last_call \in {"predict_compound_risk", "validate_system"}

Succeeded == Assessed /\ "error" \notin DOMAIN Assessment

\* the caller notes how the assessment it holds ended, before it calls again
Logged ==
    earlier' = earlier \cup (IF ~Assessed THEN {}
                             ELSE IF Succeeded THEN {"assessment"} ELSE {"sentinel"})

\* the caller assesses the observation it holds
Predict == PredictCompoundRisk(input_data) /\ UNCHANGED earlier

Validate == ValidateSystem /\ UNCHANGED earlier

Analyse == RunComprehensiveAnalysis /\ UNCHANGED earlier

Next == Predict \/ Validate \/ Analyse

Spec == Init /\ [][Next]_vars

\* a caller that assesses one observation after another
InitCalls ==
    /\ engine = InitEngine
    /\ input_data = EmptyObservation
    /\ result = NoResult
    /\ last_call = "__init__"
    /\ clock = 0
    /\ tie \in Sides
    /\ earlier = {}

PredictAny == (\E obs \in CallObservations : PredictCompoundRisk(obs)) /\ Logged

ValidateAgain == ValidateSystem /\ Logged

AnalyseAgain == RunComprehensiveAnalysis /\ Logged

NextCalls == PredictAny \/ ValidateAgain \/ AnalyseAgain

SpecCalls == InitCalls /\ [][NextCalls]_vars

-----------------------------------------------------------------------------
(* The claims *)

\* every key is present and holds a number
AllNumeric(d) == \A k \in Keys : d[k].type = "float"

\* the value the code reads for a key: the observation's, or the default
Temperature == Get(input_data, "temperature", Num(75, 0)).val
Precipitation == Get(input_data, "precipitation", Num(0, 1)).val
Humidity == Get(input_data, "humidity", Num(50, 0)).val
PowerDemand == Get(input_data, "power_demand", Num(1500, 0)).val
SoilMoisture == Get(input_data, "soil_moisture", Num(30, 0)).val

\* C1: for an observation whose five fields are all numeric,
\* predict_compound_risk returns a risk_score in [0, 1] and a confidence in
\* [0.70, 0.95] (both in thousandths here).
C1_ScoreAndConfidenceInRange ==
    (Assessed /\ AllNumeric(input_data)) =>
        /\ {"risk_score", "confidence"} \subseteq DOMAIN Assessment
        /\ 0 <= Assessment.risk_score /\ Assessment.risk_score <= 1000
        /\ 700 <= Assessment.confidence /\ Assessment.confidence <= 950

\* a numeric observation whose total risk exceeds 1 has been assessed: the
\* score was clamped to 1.0 and the confidence capped at 0.95
C1_Witness ==
    /\ Succeeded /\ AllNumeric(input_data)
    /\ total_risk(engine, Temperature, Precipitation, Humidity, PowerDemand, SoilMoisture)
         > Frac(1, 1)
    /\ Assessment.risk_score = 1000 /\ Assessment.confidence = 950

\* C2: if any one of the five fields holds a non-numeric value, whatever the
\* other fields hold, the result is the degraded one: an error field,
\* risk_score 0.0 and risk_level 'Unknown'.
C2_NonNumericGivesSentinel ==
    (Assessed /\ \E k \in Keys : input_data[k].type = "str") =>
        /\ "error" \in DOMAIN Assessment
        /\ Assessment.risk_score = 0
        /\ Assessment.risk_level = "Unknown"

\* the bucket of the spec that holds a score given in thousandths
BucketOf(score) ==
    IF 0 <= score /\ score < 300 THEN "Low"
    ELSE IF 300 <= score /\ score < 600 THEN "Moderate"
    ELSE IF 600 <= score /\ score < 800 THEN "High"
    ELSE IF score >= 800 THEN "Extreme"
    ELSE "none"

\* C3: in every successful result, risk_level is the bucket that holds the
\* returned (rounded) risk_score: Low [0, 0.3), Moderate [0.3, 0.6),
\* High [0.6, 0.8), Extreme from 0.8 up, 1.0 included.
C3_LevelIsBucketOfReturnedScore ==
    Succeeded => Assessment.risk_level = BucketOf(Assessment.risk_score)

\* the score of the observation the state holds with its temperature
\* replaced by t, as predict_compound_risk returns it
ScoreAt(t) ==
    predict_compound_risk(engine, [input_data EXCEPT !.temperature = t], clock, tie).risk_score

\* C4: for two numeric observations that differ only in temperature, with
\* 95 <= t1 <= t2, the heat risk, the score and the returned risk_score for
\* t2 are each at least those for t1.
C4_MonotoneInTemperature ==
    (Succeeded /\ AllNumeric(input_data) /\ Temperature >= Num(95, 0)) =>
        \A t2 \in TempValues :
            t2.val >= Temperature =>
                /\ heat_risk(t2.val) >= heat_risk(Temperature)
                /\ calculate_risk_score(engine, t2.val, Precipitation, Humidity,
                                        PowerDemand, SoilMoisture)
                     >= calculate_risk_score(engine, Temperature, Precipitation, Humidity,
                                             PowerDemand, SoilMoisture)
                /\ ScoreAt(t2) >= Assessment.risk_score

\* an observation at 104 degrees has been assessed, and the grid holds a
\* hotter one whose heat risk and score are strictly greater
C4_Witness ==
    /\ Succeeded /\ AllNumeric(input_data)
    /\ Temperature = Num(104, 0)
    /\ \E t2 \in TempValues :
          /\ t2.val > Temperature
          /\ heat_risk(t2.val) > heat_risk(Temperature)
          /\ ScoreAt(t2) > Assessment.risk_score

\* C5: for a numeric observation, is_anomaly is true exactly when one of the
\* five strict conditions holds; soil_moisture and the score play no part.
C5_AnomalyIffFiveConditions ==
    (Succeeded /\ AllNumeric(input_data)) =>
        (Assessment.is_anomaly <=>
            \/ input_data.temperature.val > 1030
            \/ input_data.precipitation.val > 40
            \/ input_data.power_demand.val > 19000
            \/ (input_data.temperature.val > 1000 /\ input_data.humidity.val > 800)
            \/ (input_data.temperature.val > 950 /\ input_data.precipitation.val > 30))

\* an observation at exactly 103 degrees with a score of at least 0.8 and no
\* other condition has been assessed, and is not anomalous
C5_Witness ==
    /\ Succeeded /\ AllNumeric(input_data)
    /\ input_data.temperature.val = 1030
    /\ input_data.precipitation.val <= 30
    /\ input_data.power_demand.val <= 19000
    /\ input_data.humidity.val <= 800
    /\ Assessment.risk_score >= 800
    /\ ~Assessment.is_anomaly

\* the heat dome observation is the one assessed: as __main__ and
\* validate_system pass it (no soil_moisture), or with soil_moisture 30
ScenarioAAssessed == Succeeded /\ input_data \in {ScenarioA, test_conditions}

\* C6, as the spec states it: in Scenario A the environmental stress is 0,
\* the total is heat risk 0.733 + infrastructure contribution 0.075, about
\* 0.808, the level is Extreme and is_anomaly is false.
C6_ScenarioA_AsStated ==
    (Succeeded /\ input_data = ScenarioA) =>
        /\ environmental_stress(Temperature, Precipitation, Humidity, SoilMoisture) = Frac(0, 1)
        /\ Round3(heat_risk(Temperature), Frac(1, 1), tie) = 733
        /\ Times(infra_risk(engine, PowerDemand), 6, 10) = Frac(75, 1000)
        /\ Assessment.risk_score = 808
        /\ Assessment.risk_level = "Extreme"
        /\ ~Assessment.is_anomaly

\* C6, amended: in Scenario A the drought stress 0.3 applies (103 > 95 and
\* 0.1 < 0.5), so the environmental stress is 0.09 and the total is
\* 0.733 + 0.075 + 0.09, about 0.898; the multiplier stays 1.0, the level is
\* Extreme and is_anomaly is false.
C6_ScenarioA ==
    ScenarioAAssessed =>
        /\ drought_stress(Temperature, Precipitation) = Frac(3, 10)
        /\ humidity_factor(Temperature, Humidity) = Frac(1, 1)
        /\ soil_factor(SoilMoisture) = Frac(1, 1)
        /\ environmental_stress(Temperature, Precipitation, Humidity, SoilMoisture) = Frac(9, 100)
        /\ Round3(heat_risk(Temperature), Frac(1, 1), tie) = 733
        /\ Times(infra_risk(engine, PowerDemand), 6, 10) = Frac(75, 1000)
        /\ compound_multiplier(heat_risk(Temperature), infra_risk(engine, PowerDemand)) = Num(1, 0)
        /\ Assessment.risk_score = 898
        /\ Assessment.risk_level = "Extreme"
        /\ ~Assessment.is_anomaly

\* Scenario A has been assessed by predict_compound_risk itself
C6_Witness ==
    /\ ScenarioAAssessed
    /\ input_data = ScenarioA
    /\ last_call = "predict_compound_risk"

\* C7: in Scenario C the heat risk is 1.0, the infrastructure risk exactly
\* 0.5 so the multiplier stays 1.0, the environmental stress 0.15, the total
\* 1.45 is clamped to risk_score 1.0, the level is Extreme and is_anomaly is
\* true.
C7_ScenarioC ==
    (Succeeded /\ input_data = ScenarioC) =>
        /\ heat_risk(Temperature) = Frac(1, 1)
        /\ infra_risk(engine, PowerDemand) = Frac(5, 10)
        /\ compound_multiplier(heat_risk(Temperature), infra_risk(engine, PowerDemand)) = Num(1, 0)
        /\ environmental_stress(Temperature, Precipitation, Humidity, SoilMoisture) = Frac(15, 100)
        /\ total_risk(engine, Temperature, Precipitation, Humidity, PowerDemand, SoilMoisture)
             = Frac(145, 100)
        /\ Assessment.risk_score = 1000
        /\ Assessment.risk_level = "Extreme"
        /\ Assessment.is_anomaly

\* Scenario C has been assessed
C7_Witness ==
    /\ Succeeded /\ input_data = ScenarioC
    /\ last_call = "predict_compound_risk"
    /\ Assessment.infrastructure_impact = "Critical"

\* the observation with every absent field replaced by its documented default
WithDefaults(d) ==
    [ temperature |-> IF d.temperature = Absent THEN Number(750) ELSE d.temperature,
      precipitation |-> IF d.precipitation = Absent THEN Number(1) ELSE d.precipitation,
      humidity |-> IF d.humidity = Absent THEN Number(500) ELSE d.humidity,
      power_demand |-> IF d.power_demand = Absent THEN Number(15000) ELSE d.power_demand,
      soil_moisture |-> IF d.soil_moisture = Absent THEN Number(300) ELSE d.soil_moisture ]

\* C8: an absent field takes its default (75, 0.1, 50, 1500, 30), so an
\* observation is assessed like the one with the defaults written in, and
\* the empty observation gives risk_score 0.0, Low, no anomaly,
\* infrastructure_impact Low and no recommendations.
C8_Defaults ==
    Assessed =>
        /\ \E t \in 0..MaxClock :
              Assessment = predict_compound_risk(engine, WithDefaults(input_data), t, tie)
        /\ input_data = EmptyObservation =>
              /\ Succeeded
              /\ Assessment.risk_score = 0
              /\ Assessment.risk_level = "Low"
              /\ ~Assessment.is_anomaly
              /\ Assessment.infrastructure_impact = "Low"
              /\ Assessment.recommendations = << >>

\* the empty observation has been assessed
C8_Witness ==
    /\ Succeeded /\ input_data = EmptyObservation
    /\ last_call = "predict_compound_risk"
    /\ Assessment.confidence = 700

Only(cond, str) == IF cond THEN <<str>> ELSE << >>

TierCount(level) ==
    IF level = "Extreme" THEN 6 ELSE IF level = "High" THEN 5
    ELSE IF level = "Moderate" THEN 4 ELSE 0

\* C9: the recommendations of a successful result are the tier block of its
\* risk_level (6, 5, 4 or no strings) followed by cancel-outdoor-activities
\* iff temperature > 100, grid-stress iff power_demand > 1850 and
\* flood-drainage iff precipitation > 3.0, in this order.
C9_Recommendations ==
    Succeeded =>
        LET recs == Assessment.recommendations
            level == Assessment.risk_level
            n == TierCount(level)
            hot == Temperature > 1000
            grid == PowerDemand > 18500
            flood == Precipitation > 30
        IN  /\ Len(recs) = n + (IF hot THEN 1 ELSE 0) + (IF grid THEN 1 ELSE 0)
                             + (IF flood THEN 1 ELSE 0)
            /\ Len(recs) >= n
            /\ SubSeq(recs, 1, n) = (IF level = "Extreme" THEN ExtremeBlock
                                     ELSE IF level = "High" THEN HighBlock
                                     ELSE IF level = "Moderate" THEN ModerateBlock
                                     ELSE << >>)
            /\ SubSeq(recs, n + 1, Len(recs))
                 = Only(hot, "EXTREME HEAT: Cancel outdoor activities")
                   \o Only(grid, "GRID STRESS: Prepare for potential rolling blackouts")
                   \o Only(flood, "FLOOD RISK: Monitor drainage systems")

\* an Extreme result whose three conditions all hold: nine recommendations
C9_Witness ==
    /\ Succeeded
    /\ Assessment.risk_level = "Extreme"
    /\ Temperature > 1000 /\ PowerDemand > 18500 /\ Precipitation > 30
    /\ Len(Assessment.recommendations) = 9

\* C10: predict_compound_risk never changes the engine's state, so after any
\* earlier calls, sentinel results included, an assessment is, but for
\* analysis_time, the one a fresh engine returns for the observation.
C10_Stateless ==
    /\ engine = InitEngine
    /\ Assessed =>
          \E t \in 0..MaxClock :
              Assessment = predict_compound_risk(InitEngine, input_data, t, tie)

\* an assessment made after an earlier one that succeeded and an earlier one
\* that ended in the sentinel
C10_Witness ==
    /\ last_call = "predict_compound_risk"
    /\ Succeeded
    /\ earlier = {"assessment", "sentinel"}
    /\ Assessment.risk_score > 0

\* the compound multiplier of the observation the state holds, in tenths
Multiplier ==
    compound_multiplier(heat_risk(Temperature), infra_risk(engine, PowerDemand))

\* the sum of the observation the state holds before the multiplier
BeforeMultiplier ==
    risk_before_multiplier(engine, Temperature, Precipitation, Humidity,
                           PowerDemand, SoilMoisture)

\* C11: whenever the multiplier 1.5 applies, the total exceeds 1 and is
\* clamped, so risk_score is 1.0 and risk_level Extreme, and the same inputs
\* scored with the multiplier fixed at 1.0 already exceed 0.8 and are
\* Extreme; so the multiplier changes no numeric observation's risk_level.
C11_MultiplierNeverChangesLevel ==
    (Succeeded /\ AllNumeric(input_data)) =>
        /\ Multiplier = Num(1, 5) =>
              /\ total_risk(engine, Temperature, Precipitation, Humidity, PowerDemand,
                            SoilMoisture) > Frac(1, 1)
              /\ total_risk(engine, Temperature, Precipitation, Humidity, PowerDemand,
                            SoilMoisture) = Times(BeforeMultiplier, 15, 10)
              /\ Assessment.risk_score = 1000
              /\ Assessment.risk_level = "Extreme"
              /\ BeforeMultiplier > Frac(8, 10)
        /\ Assessment.risk_level = get_risk_level(engine, Min(Frac(1, 1), BeforeMultiplier))

\* the multiplier applied to the smallest sum the grid gives it: 100 degrees
\* and 2001 MW with no environmental stress, 0.835 before and 1.252 after
C11_Witness ==
    /\ Succeeded /\ AllNumeric(input_data)
    /\ Multiplier = Num(1, 5)
    /\ Temperature = Num(100, 0) /\ PowerDemand = Num(2001, 0)
    /\ BeforeMultiplier < Frac(84, 100)
    /\ Assessment.risk_score = 1000

====
